---- MODULE Spec2Model ----
(***************************************************************************)
(* A model of byop's scheduling core: Comm (one endpoint of a duplex       *)
(* multiprocessing.Pipe), AsyncComm, CommTask (the per-invocation relay    *)
(* loop _communicate and Msg.respond) from src/src/byop/scheduling/        *)
(* comm_task.py, on top of Task / Scheduler, whose code is not part of     *)
(* the sources at hand and is modelled from the specification.             *)
(*                                                                         *)
(* Specifications:                                                         *)
(*   SpecComm    one Comm pair driven through its public API               *)
(*               (send / close / request) from both ends;                  *)
(*   Spec        a CommTask of a Scheduler: __call__, the workers running  *)
(*               the task's function, the relay loops and the handlers;    *)
(*   SpecSched   Scheduler.run() around the task;                          *)
(*   SpecBus     an EventBus, its subscriptions and emits;                 *)
(*   SpecBucket  Bucket.fetch, from src/src/byop/store/bucket.py;          *)
(*   SpecOpt     NEPSOptimizer, from src/src/amltk/optimization/           *)
(*               optimizers/neps.py, in rounds of ask / evaluate / tell.   *)
(***************************************************************************)
EXTENDS Integers, Sequences, FiniteSets, TLC

VARIABLES
    mode,                \* executor kind: "thread" (worker shares the Comm object) or "process" (worker holds a copy)
    function,            \* the task's callable, as the sequence of Comm operations it performs
    policy,              \* what the registered REQUEST / MESSAGE handlers do
    call_limit,          \* Task.call_limit (0 stands for None)
    n_called,            \* Task.n_called
    calls,               \* for each __call__ invocation in order: the future returned, 0 for None
    rejected,            \* for each invocation that returned None: the Comm pair it had created
    futures,             \* per future: the executor's state of it and its result
    live,                \* the scheduler's set of futures not yet processed
    worker_comms,        \* keys of CommTask.worker_comms
    communication_tasks, \* keys of CommTask.communication_tasks
    inbox,               \* per future, per side of the pipe: frames written by the peer and not yet read
    closed,              \* per future, per Connection handle: Connection.closed
    pend,                \* per future, per endpoint: the blocking Comm call its user is inside
    ret,                 \* per future, per endpoint: how the last Comm call of its user ended
    wpc,                 \* per future: the worker's position in function
    relay,               \* per future: the position of _communicate
    events,              \* per future: the events emitted with it (Task events, Msg.future), in order
    log,                 \* per future: frames read by the relay, frames written by the worker's
                         \* send / request, and the response owed to the worker's pending request
    napi,                \* SpecComm: number of API calls made
    bucket,              \* a Bucket: the resources stored in it and the last fetch made
    opt,                 \* an optimizer and the trial of one ask / evaluate / tell round
    bus,                 \* an EventBus: its subscriptions in registration order, and what the
                         \* last emit invoked
    sched                \* the Scheduler: its run() arguments, its phase, the batch of observed
                         \* items being dispatched, the callbacks in progress, STARTED / STOPPED counts

vars == <<mode, function, policy, call_limit, n_called, calls, rejected,
          futures, live, worker_comms, communication_tasks, inbox, closed,
          pend, ret, wpc, relay, events, log, napi, sched, bus, bucket, opt>>

taskVars == <<mode, function, policy, call_limit, n_called, calls, rejected,
              futures, live, worker_comms, communication_tasks, wpc, relay,
              events, log, sched, bus, bucket, opt>>

(***************************************************************************)
(* Bounds of the model.                                                    *)
(***************************************************************************)
MaxCalls == 3
MaxApiCalls == 4
MaxSubs == 3
MaxEmits == 3
MaxTrials == 2
MaxClock == 1

F == 1..MaxCalls

(***************************************************************************)
(* Python values that travel over the pipe.                                *)
(***************************************************************************)
None == <<"none">>
PyInt(n) == <<"int", n>>
PyTuple2(a, b) == <<"tuple", a, b>>
CLOSE == <<"event", "commtask-close">>
REQUEST == <<"event", "commtask-request">>
MESSAGE == <<"event", "commtask-message">>

IsInt(v) == v[1] = "int"

(***************************************************************************)
(* multiprocessing.Pipe(duplex=True): two sides, "S" (kept by the          *)
(* scheduler) and "W" (given to the worker).  Handle "M" is the            *)
(* orchestrator's own reference to the worker side when the worker runs    *)
(* in another process and holds a copy "W"; where no copy exists "M" is    *)
(* closed from the start.  A channel c is [inbox, closed].                 *)
(***************************************************************************)
Sides == {"S", "W"}
Handles == {"S", "W", "M"}

SideOf(h) == IF h = "S" THEN "S" ELSE "W"
PeerSide(h) == IF h = "S" THEN "W" ELSE "S"
SideClosed(c, s) == \A h \in Handles : SideOf(h) = s => c.closed[h]

Create == [inbox |-> [s \in Sides |-> <<>>],
           closed |-> [h \in Handles |-> h = "M"]]

Chan(f) == [inbox |-> inbox[f], closed |-> closed[f]]

Ok(c, v) == [c |-> c, exc |-> "none", val |-> v]
Raise(c, e) == [c |-> c, exc |-> e, val |-> None]

\* Connection.send: OSError on a closed handle, BrokenPipeError when no
\* handle of the peer side is open, else the frame is queued for the peer.
ConnSend(c, h, obj) ==
    IF c.closed[h] THEN Raise(c, "OSError")
    ELSE IF SideClosed(c, PeerSide(h)) THEN Raise(c, "BrokenPipeError")
    ELSE Ok([c EXCEPT !.inbox[PeerSide(h)] = Append(@, obj)], None)

\* A read on h can complete: a frame is queued, or the peer side is gone (EOF).
Readable(c, h) == c.inbox[SideOf(h)] # <<>> \/ SideClosed(c, PeerSide(h))

\* Connection.poll() without waiting.
ConnPoll(c, h) ==
    IF c.closed[h] THEN Raise(c, "OSError") ELSE Ok(c, Readable(c, h))

\* Connection.recv() at a moment it does not block.
ConnRecv(c, h) ==
    IF c.closed[h] THEN Raise(c, "OSError")
    ELSE IF c.inbox[SideOf(h)] # <<>>
         THEN Ok([c EXCEPT !.inbox[SideOf(h)] = Tail(@)], Head(c.inbox[SideOf(h)]))
         ELSE Raise(c, "EOFError")

\* Connection.close().
ConnClose(c, h) == [c EXCEPT !.closed[h] = TRUE]

(***************************************************************************)
(* Comm                                                                    *)
(***************************************************************************)
\* Comm.send: BrokenPipeError is logged and swallowed, anything else propagates.
CommSend(c, h, obj) ==
    LET r == ConnSend(c, h, obj)
    IN  IF r.exc = "BrokenPipeError" THEN Ok(r.c, None) ELSE r

\* Comm.close, lines 81-87: the CLOSE sentinel is sent, every failure swallowed.
CloseSentinel(c, h) == ConnSend(c, h, CLOSE).c

\* Faulty variant of CloseTransport: the sentinel is sent but the transport
\* is left open.
CloseTransport_Skipped(c, h) == c

\* Comm.close, lines 97-104: the transport is closed.
CloseTransport(c, h) == ConnClose(c, h)

\* Comm.close(wait_for_ack=False).
CommClose(c, h) ==
    IF c.closed[h] THEN c ELSE CloseTransport(CloseSentinel(c, h), h)

\* Comm.request(msg, block=False, default=d).
CommRequestNB(c, h, d) ==
    LET p == ConnPoll(c, h)
    IN  IF p.exc # "none" THEN Raise(c, p.exc)
        ELSE IF ~p.val THEN Ok(c, d)
        ELSE ConnRecv(c, h)

\* Comm.request with block=True or numeric, line 185: the (REQUEST, msg) frame.
CommRequestSend(c, h, msg) == CommSend(c, h, PyTuple2(REQUEST, msg))

\* Faulty variant of CommRequestRecv: the conditional of line 187 inverted,
\* the default is returned when there is something to read.
CommRequestRecv_Default(c, h) ==
    LET p == ConnPoll(c, h)
    IN  IF p.exc # "none" THEN Raise(c, p.exc) ELSE Ok(c, PyInt(0))

\* Comm.request, lines 186-187, once poll(timeout) has returned True or raised.
CommRequestRecv(c, h) ==
    LET p == ConnPoll(c, h)
    IN  IF p.exc # "none" THEN Raise(c, p.exc) ELSE ConnRecv(c, h)

\* AsyncConnection(connection).recv() once the connection is readable: the
\* next frame, or EOFError when the peer side is gone.
AsyncConnectionRecv(c, h) == ConnRecv(c, h)

\* AsyncComm.request(timeout=None, default=d), lines 234-236, once the
\* awaited recv() has completed: the message, d in place of a None.
AsyncCommRequest(c, h, d) ==
    LET r == AsyncConnectionRecv(c, h)
    IN  IF r.exc = "none" /\ r.val = None THEN Ok(r.c, d) ELSE r

\* AsyncComm.request(timeout=t), line 235, when t elapses before recv()
\* completes: asyncio.wait_for cancels the recv and raises TimeoutError; the
\* default of line 236 is not reached.
AsyncCommRequestTimeout(c, d) == Raise(c, "TimeoutError")

(***************************************************************************)
(* SpecComm: the two ends of one Comm.create(duplex=True) pair, each used  *)
(* by one caller through the public API.  The pair is that of future 1.    *)
(***************************************************************************)
\* An EventBus with no subscription, on which nothing was emitted.
\* reg keeps each subscription as registered and count the number of
\* invocations of each so far.
NoBus == [subs |-> <<>>, nsub |-> 0, nemit |-> 0, reg |-> <<>>, count |-> <<>>,
          last |-> [event |-> "none", invoked |-> <<>>, caught |-> <<>>, escaped |-> FALSE]]

Absent == <<"absent">>
PyFloat(n) == <<"float", n>>
Keys == {"a", "b"}

\* A dict over the keys ks: Absent marks a key that is not in it.
NoDict(ks) == [k \in ks |-> Absent]
PyDict(d) == <<"dict", d>>
IsDict(v) == v[1] = "dict"

\* An empty Bucket, from which nothing was fetched.
NoBucket ==
    [store |-> NoDict(Keys), keys |-> {}, default |-> None, result |-> NoDict(Keys)]

ResultKeys == {"loss", "cost"}
TimeKinds == {"WALL", "CPU", "PROCESS"}

\* A Trial.Report not made yet.
NoReport ==
    [status |-> "none", results |-> NoDict(ResultKeys), exception |-> "none",
     traceback |-> "none", info |-> 0, kind |-> "none", start |-> 0, end |-> 0]

\* No optimizer made yet.
NoOpt ==
    [phase |-> "none",
     args |-> [ignore_errors |-> TRUE, loss_value_on_error |-> None,
               cost_value_on_error |-> None],
     ignore_errors |-> TRUE, loss_value_on_error |-> None, cost_value_on_error |-> None,
     budget |-> None, used_budget |-> 0, clock |-> [k \in TimeKinds |-> 0], info |-> 0,
     kind |-> "none", start |-> 0, err |-> "none", passed |-> NoDict(ResultKeys),
     report |-> NoReport, raised |-> "none"]

\* The Scheduler before run(): nothing observed, no callback in progress, no
\* exception raised into its loop.
NoSched ==
    [phase |-> "init", wait |-> TRUE, end_on_empty |-> TRUE, timeout |-> FALSE,
     stop |-> FALSE, elapsed |-> FALSE, batch |-> <<>>, active |-> {},
     started |-> 0, stopped |-> 0, error |-> None]

Idle == "idle"
NoLog == [read |-> <<>>, sent |-> <<>>, owed |-> <<>>]
\* How a Comm call ended: the call (op, block), what it raised or returned,
\* its ordinal n, and how many close() calls the endpoint has completed.
NoCall == [op |-> "none", block |-> "none", exc |-> "none", val |-> None,
           n |-> 0, closes |-> 0]
Ret(prev, op, block, r, n) ==
    [op |-> op, block |-> block, exc |-> r.exc, val |-> r.val, n |-> n,
     closes |-> prev.closes + (IF op = "close" THEN 1 ELSE 0)]

Default == PyInt(0)
ApiVals == {PyInt(10), CLOSE}

SetChan(f, c) ==
    /\ inbox' = [inbox EXCEPT ![f] = c.inbox]
    /\ closed' = [closed EXCEPT ![f] = c.closed]

InitChannels ==
    /\ inbox = [f \in F |-> Create.inbox]
    /\ closed = [f \in F |-> Create.closed]
    /\ pend = [f \in F |-> [s \in Sides |-> Idle]]
    /\ ret = [f \in F |-> [s \in Sides |-> NoCall]]

InitComm ==
    /\ InitChannels
    /\ napi = 0
    /\ sched = NoSched
    /\ bus = NoBus
    /\ bucket = NoBucket
    /\ opt = NoOpt
    /\ mode = "thread"
    /\ function = <<>>
    /\ policy = "none"
    /\ call_limit = 0
    /\ n_called = 0
    /\ calls = <<>>
    /\ rejected = <<>>
    /\ futures = [f \in F |-> [state |-> "none", result |-> None]]
    /\ live = {}
    /\ worker_comms = {}
    /\ communication_tasks = {}
    /\ wpc = [f \in F |-> 0]
    /\ relay = [f \in F |-> "none"]
    /\ events = [f \in F |-> <<>>]
    /\ log = [f \in F |-> NoLog]

ApiStart(e) ==
    /\ napi < MaxApiCalls
    /\ pend[1][e] = Idle
    /\ napi' = napi + 1
    /\ UNCHANGED taskVars

ApiSend(e, v) ==
    /\ ApiStart(e)
    /\ LET r == CommSend(Chan(1), e, v)
       IN  /\ SetChan(1, r.c)
           /\ ret' = [ret EXCEPT ![1][e] = Ret(ret[1][e], "send", "none", r, napi')]
    /\ UNCHANGED pend

ApiClose(e) ==
    /\ ApiStart(e)
    /\ SetChan(1, CommClose(Chan(1), e))
    /\ ret' = [ret EXCEPT ![1][e] =
                 Ret(ret[1][e], "close", "False", Ok(Chan(1), None), napi')]
    /\ UNCHANGED pend

\* close(wait_for_ack=True) up to the blocking read of the acknowledgement.
ApiCloseAckBegin(e) ==
    /\ ApiStart(e)
    /\ IF closed[1][e]
       THEN /\ ret' = [ret EXCEPT ![1][e] = Ret(ret[1][e], "close", "True", Ok(Chan(1), None), napi')]
            /\ UNCHANGED <<inbox, closed, pend>>
       ELSE /\ SetChan(1, CloseSentinel(Chan(1), e))
            /\ pend' = [pend EXCEPT ![1][e] = "ack"]
            /\ UNCHANGED ret

\* close(wait_for_ack=True): the read returns or raises (swallowed), then
\* the transport is closed.
ApiCloseAckEnd(e) ==
    /\ pend[1][e] = "ack"
    /\ closed[1][e] \/ Readable(Chan(1), e)
    /\ SetChan(1, CloseTransport(ConnRecv(Chan(1), e).c, e))
    /\ pend' = [pend EXCEPT ![1][e] = Idle]
    /\ ret' = [ret EXCEPT ![1][e] = Ret(ret[1][e], "close", "True", Ok(Chan(1), None), napi)]
    /\ UNCHANGED <<napi, taskVars>>

ApiRequestNB(e) ==
    /\ ApiStart(e)
    /\ LET r == CommRequestNB(Chan(1), e, Default)
       IN  /\ SetChan(1, r.c)
           /\ ret' = [ret EXCEPT ![1][e] = Ret(ret[1][e], "request", "False", r, napi')]
    /\ UNCHANGED pend

\* request(msg, block=True | t): the REQUEST frame is sent, the caller waits.
ApiRequestBegin(e, block, msg) ==
    /\ ApiStart(e)
    /\ LET r == CommRequestSend(Chan(1), e, msg)
       IN  /\ SetChan(1, r.c)
           /\ IF r.exc # "none"
              THEN /\ ret' = [ret EXCEPT ![1][e] = Ret(ret[1][e], "request", block, r, napi')]
                   /\ UNCHANGED pend
              ELSE /\ pend' = [pend EXCEPT ![1][e] = block]
                   /\ UNCHANGED ret

\* request: poll(timeout) found the connection readable (or raised), recv().
ApiRequestRecv(e) ==
    /\ pend[1][e] \in {"True", "num"}
    /\ closed[1][e] \/ Readable(Chan(1), e)
    /\ LET r == CommRequestRecv(Chan(1), e)
       IN  /\ SetChan(1, r.c)
           /\ ret' = [ret EXCEPT ![1][e] = Ret(ret[1][e], "request", pend[1][e], r, napi)]
    /\ pend' = [pend EXCEPT ![1][e] = Idle]
    /\ UNCHANGED <<napi, taskVars>>

\* request(block=t): the timeout elapsed with nothing to read.
ApiRequestTimeout(e) ==
    /\ pend[1][e] = "num"
    /\ ~closed[1][e] /\ ~Readable(Chan(1), e)
    /\ ret' = [ret EXCEPT ![1][e] = Ret(ret[1][e], "request", "num", Ok(Chan(1), Default), napi)]
    /\ pend' = [pend EXCEPT ![1][e] = Idle]
    /\ UNCHANGED <<napi, inbox, closed, taskVars>>

\* comm.as_async.request(timeout=t, default=d): the caller awaits; nothing
\* is sent.  t is "None" or "num".
ApiAsyncRequestBegin(e, t) ==
    /\ ApiStart(e)
    /\ pend' = [pend EXCEPT ![1][e] = IF t = "num" THEN "await_num" ELSE "await_None"]
    /\ UNCHANGED <<inbox, closed, ret>>

\* The awaited recv() completes (a frame, or an exception).
ApiAsyncRequestRecv(e) ==
    /\ pend[1][e] \in {"await_None", "await_num"}
    /\ closed[1][e] \/ Readable(Chan(1), e)
    /\ LET r == AsyncCommRequest(Chan(1), e, Default)
       IN  /\ SetChan(1, r.c)
           /\ ret' = [ret EXCEPT ![1][e] = Ret(ret[1][e], "arequest",
                                           IF pend[1][e] = "await_num" THEN "num" ELSE "None",
                                           r, napi)]
    /\ pend' = [pend EXCEPT ![1][e] = Idle]
    /\ UNCHANGED <<napi, taskVars>>

\* The timeout elapses with nothing to read.
ApiAsyncRequestTimeout(e) ==
    /\ pend[1][e] = "await_num"
    /\ ~closed[1][e] /\ ~Readable(Chan(1), e)
    /\ ret' = [ret EXCEPT ![1][e] =
                 Ret(ret[1][e], "arequest", "num",
                     AsyncCommRequestTimeout(Chan(1), Default), napi)]
    /\ pend' = [pend EXCEPT ![1][e] = Idle]
    /\ UNCHANGED <<napi, inbox, closed, taskVars>>

NextComm ==
    \E e \in Sides :
        \/ \E t \in {"None", "num"} : ApiAsyncRequestBegin(e, t)
        \/ ApiAsyncRequestRecv(e)
        \/ ApiAsyncRequestTimeout(e)
        \/ \E v \in ApiVals : ApiSend(e, v)
        \/ ApiClose(e)
        \/ ApiCloseAckBegin(e)
        \/ ApiCloseAckEnd(e)
        \/ ApiRequestNB(e)
        \/ \E b \in {"True", "num"} : ApiRequestBegin(e, b, None)
        \/ ApiRequestRecv(e)
        \/ ApiRequestTimeout(e)

SpecComm == InitComm /\ [][NextComm]_vars

(***************************************************************************)
(* The task's function: the Comm operations the worker performs, in        *)
(* order, and how it ends.                                                 *)
(***************************************************************************)
Send(v) == [op |-> "send", arg |-> v, block |-> "none"]
Request(block, msg) == [op |-> "request", arg |-> msg, block |-> block]
Close(ack) == [op |-> "close", arg |-> None, block |-> IF ack THEN "True" ELSE "False"]
Return(what) == [op |-> "return", arg |-> None, block |-> what]
RaiseError == [op |-> "raise", arg |-> None, block |-> "none"]
Teardown == [op |-> "teardown", arg |-> None, block |-> "none"]

\* The docstring's example, with the updates 10 and 20:
\*   comm.send(10); comm.send(20); m = comm.request(); return x * m
calculate == <<Send(PyInt(10)), Send(PyInt(20)), Request("True", None), Return("mul")>>
\* comm.send(10); comm.send(20); comm.close()
stream == <<Send(PyInt(10)), Send(PyInt(20)), Close(FALSE), Return("none")>>
\* a = comm.request(1, block=t); b = comm.request(2); return b
retry == <<Request("num", PyInt(1)), Request("True", PyInt(2)), Return("reply")>>
\* comm.send(10); comm.close(wait_for_ack=True); comm.close()
closer == <<Send(PyInt(10)), Close(TRUE), Close(FALSE), Return("none")>>
\* m = comm.request(block=False, default=0); return m
drain == <<Request("False", None), Return("reply")>>
\* comm.send((1, 2)); comm.send((REQUEST, 7)); comm.send(CLOSE); comm.send(10)
tricky == <<Send(PyTuple2(PyInt(1), PyInt(2))), Send(PyTuple2(REQUEST, PyInt(7))),
            Send(CLOSE), Send(PyInt(10)), Return("none")>>
\* raise ValueError
failing == <<RaiseError>>
\* The function's own argument x, where an operation passes it on.
X == <<"arg", "x">>
\* comm.send(x); m = comm.request(x); return m
ident == <<Send(X), Request("True", X), Return("reply")>>

\* a = comm.request(1, block=t); comm.close(wait_for_ack=True)
late == <<Request("num", PyInt(1)), Close(TRUE), Return("none")>>
\* comm.send(10); comm.connection.close()
abrupt == <<Send(PyInt(10)), Teardown, Return("none")>>

Functions == {calculate, stream, retry, closer, drain, tricky, failing, ident, abrupt, late}

\* The handlers registered on the task: none; a REQUEST handler that calls
\* msg.respond(2); a REQUEST handler that calls msg.respond(msg.data).
Policies == {"none", "two", "echo"}

\* call_limit: 1 or 2 (0 would stand for None, no limit).
Limits == {1, 2}

\* The x the i-th submission is called with.
Arg(f) == f + 2

Exc(name) == <<"exc", name>>

(***************************************************************************)
(* Events.  An emitted event is recorded with the future it is emitted     *)
(* with and, for a Msg, the Msg's data and comm.                           *)
(***************************************************************************)
NoComm == <<0, "none">>
Ev(ev, data, comm) == [ev |-> ev, data |-> data, comm |-> comm]
TaskEv(ev, data) == Ev(ev, data, NoComm)

\* Faulty variant of Msg: the comm and the future are kept in one place on the
\* task, set by its first invocation, instead of per invocation.
Msg_OfFirstCall(comm, future, data) == [comm |-> <<1, comm[2]>>, future |-> 1, data |-> data]

\* CommTask.Msg(self, comm, future, data), lines 391 and 406.
Msg(comm, future, data) == [comm |-> comm, future |-> future, data |-> data]

\* Faulty variant of Classify: the loop is also left after a plain message,
\* as if it were the close of the channel.
Classify_BreakOnMessage(data) ==
    IF data[1] = "tuple" /\ Len(data) = 3 /\ data[2] = REQUEST THEN "REQUEST"
    ELSE "CLOSE"

\* Faulty variant of Classify: the test of line 388 left out, every 2-tuple
\* is taken for a request.
Classify_AnyTuple(data) ==
    IF data[1] = "tuple" /\ Len(data) = 3 THEN "REQUEST"
    ELSE IF data = CLOSE THEN "CLOSE"
    ELSE "MESSAGE"

\* _communicate, lines 385-407: the event a frame is turned into.
Classify(data) ==
    IF data[1] = "tuple" /\ Len(data) = 3 /\ data[2] = REQUEST THEN "REQUEST"
    ELSE IF data = CLOSE THEN "CLOSE"
    ELSE "MESSAGE"

\* Faulty variant of Payload: the MESSAGE branch unpacks the frame as the
\* REQUEST branch does, and a frame that is no pair yields nothing.
Payload_Unpacked(data) == IF data[1] = "tuple" /\ Len(data) = 3 THEN data[3] ELSE None

\* _communicate, lines 390 and 406: the data of the Msg.
Payload(data) == IF Classify(data) = "REQUEST" THEN data[3] ELSE data

\* What the handlers of the emitted event pass to Msg.respond: a set of at
\* most one value.
Responses(ev, msg) ==
    IF ev # "REQUEST" THEN {}
    ELSE IF policy = "two" THEN {PyInt(2)}
    ELSE IF policy = "echo" THEN {msg.data}
    ELSE {}

(***************************************************************************)
(* Task.__call__ and CommTask.__call__ on the state st of the task and     *)
(* its scheduler; the SUBMITTED handler calls the task k more times,       *)
(* nested.                                                                 *)
(***************************************************************************)
TaskState ==
    [n_called |-> n_called, calls |-> calls, rejected |-> rejected, futures |-> futures, live |-> live,
     events |-> events, worker_comms |-> worker_comms,
     communication_tasks |-> communication_tasks, relay |-> relay,
     inbox |-> inbox, closed |-> closed]

RECURSIVE CommTaskCall(_, _)

\* Faulty variant of TaskCall: a rejected call is counted too.
TaskCall_CountsRejected(st, k) ==
    IF call_limit # 0 /\ st.n_called >= call_limit
    THEN [st |-> [st EXCEPT !.calls = Append(@, 0), !.n_called = @ + 1], fut |-> 0]
    ELSE LET f == st.n_called + 1
             s1 == [st EXCEPT !.n_called = @ + 1,
                              !.calls = Append(@, f),
                              !.futures[f] = [state |-> "pending", result |-> None],
                              !.events[f] = Append(@, TaskEv("SUBMITTED", None))]
             s2 == IF k > 0 THEN CommTaskCall(s1, k - 1).st ELSE s1
         IN  [st |-> [s2 EXCEPT !.live = @ \cup {f}], fut |-> f]

\* Task.__call__: None at the call limit; else n_called is incremented, the
\* call is handed to the executor, SUBMITTED is emitted, the future is
\* registered with the scheduler and returned.
TaskCall(st, k) ==
    IF call_limit # 0 /\ st.n_called >= call_limit
    THEN [st |-> [st EXCEPT !.calls = Append(@, 0)], fut |-> 0]
    ELSE LET f == st.n_called + 1
             s1 == [st EXCEPT !.n_called = @ + 1,
                              !.calls = Append(@, f),
                              !.futures[f] = [state |-> "pending", result |-> None],
                              !.events[f] = Append(@, TaskEv("SUBMITTED", None))]
             s2 == IF k > 0 THEN CommTaskCall(s1, k - 1).st ELSE s1
         IN  [st |-> [s2 EXCEPT !.live = @ \cup {f}], fut |-> f]

\* Faulty variant of CommTaskCall: the test of lines 360-361 left out, the
\* relay and both dictionary entries are made for whatever Task.__call__
\* returned.
CommTaskCall_NoneUnchecked(st, k) ==
    LET pair == Create
        r == TaskCall(st, k)
        f == r.fut
    IN  [st |-> [r.st EXCEPT
                    !.relay = [g \in F |-> IF g = f THEN "recv" ELSE @[g]],
                    !.worker_comms = @ \cup {f},
                    !.communication_tasks = @ \cup {f}],
         fut |-> f]

\* Faulty variant of Dropped: the endpoints stay open.
Dropped_Leaked(pair) == pair

\* A Comm pair nothing refers to any more: its Connections are finalized,
\* which closes them (the garbage collection lines 327-329 speak of).
Dropped(pair) == [pair EXCEPT !.closed = [h \in Handles |-> TRUE]]

\* CommTask.__call__, lines 355-370.  The pair is made before the call limit
\* is looked at; at the limit it is referred to by the locals alone.
CommTaskCall(st, k) ==
    LET pair == Create
        r == TaskCall(st, k)
        f == r.fut
    IN  IF f = 0
        THEN [st |-> [r.st EXCEPT !.rejected = Append(@, Dropped(pair))], fut |-> 0]
        ELSE [st |-> [r.st EXCEPT
                        !.relay[f] = "recv",
                        !.worker_comms = @ \cup {f},
                        !.communication_tasks = @ \cup {f},
                        !.inbox[f] = pair.inbox,
                        !.closed[f] = [pair.closed EXCEPT !["M"] = (mode # "process")]],
              fut |-> f]

Init ==
    /\ InitChannels
    /\ napi = 0
    /\ sched = NoSched
    /\ bus = NoBus
    /\ bucket = NoBucket
    /\ opt = NoOpt
    /\ mode \in {"thread", "process"}
    /\ function \in Functions
    /\ policy \in Policies
    /\ call_limit \in Limits
    /\ n_called = 0
    /\ calls = <<>>
    /\ rejected = <<>>
    /\ futures = [f \in F |-> [state |-> "none", result |-> None]]
    /\ live = {}
    /\ worker_comms = {}
    /\ communication_tasks = {}
    /\ wpc = [f \in F |-> 0]
    /\ relay = [f \in F |-> "none"]
    /\ events = [f \in F |-> <<>>]
    /\ log = [f \in F |-> NoLog]

config == <<mode, function, policy, call_limit, napi, sched, bus, bucket, opt>>

\* task(x) is called from the scheduler's thread; the SUBMITTED handler calls
\* it k more times.
Call(k) ==
    /\ Len(calls) + 1 + k <= MaxCalls
    /\ LET st == CommTaskCall(TaskState, k).st
       IN  /\ n_called' = st.n_called
           /\ calls' = st.calls
           /\ rejected' = st.rejected
           /\ futures' = st.futures
           /\ live' = st.live
           /\ events' = st.events
           /\ worker_comms' = st.worker_comms
           /\ communication_tasks' = st.communication_tasks
           /\ relay' = st.relay
           /\ inbox' = st.inbox
           /\ closed' = st.closed
    /\ UNCHANGED <<config, pend, ret, wpc, log>>

(***************************************************************************)
(* The executor and the worker.                                            *)
(***************************************************************************)
Done == {"returned", "raised", "cancelled"}

\* The executor starts the call.
WorkerStart(f) ==
    /\ futures[f].state = "pending"
    /\ futures' = [futures EXCEPT ![f].state = "running"]
    /\ wpc' = [wpc EXCEPT ![f] = 1]
    /\ UNCHANGED <<config, n_called, calls, rejected, live, worker_comms, communication_tasks,
                   inbox, closed, pend, ret, relay, events, log>>

\* Future.cancel() on a call that has not started.
Cancel(f) ==
    /\ futures[f].state = "pending"
    /\ futures' = [futures EXCEPT ![f].state = "cancelled"]
    /\ UNCHANGED <<config, n_called, calls, rejected, live, worker_comms, communication_tasks,
                   inbox, closed, pend, ret, wpc, relay, events, log>>

Op(f) == [function[wpc[f]] EXCEPT !.arg = IF @ = X THEN PyInt(Arg(f)) ELSE @]
AtOp(f, op) ==
    /\ futures[f].state = "running"
    /\ pend[f]["W"] = Idle
    /\ Op(f).op = op

\* The call is over: the worker process drops its copy of the endpoint.
Exit(c) == IF mode = "process" THEN ConnClose(c, "W") ELSE c

\* The worker's Comm call ended as r: it goes on, or the exception ends the call.
WorkerAfter(f, r, op, block) ==
    /\ ret' = [ret EXCEPT ![f]["W"] = Ret(ret[f]["W"], op, block, r, wpc[f])]
    /\ pend' = [pend EXCEPT ![f]["W"] = Idle]
    /\ IF r.exc = "none"
       THEN /\ SetChan(f, r.c)
            /\ wpc' = [wpc EXCEPT ![f] = @ + 1]
            /\ UNCHANGED futures
       ELSE /\ SetChan(f, Exit(r.c))
            /\ futures' = [futures EXCEPT ![f] = [state |-> "raised", result |-> Exc(r.exc)]]
            /\ UNCHANGED wpc
    /\ UNCHANGED <<config, n_called, calls, rejected, live, worker_comms, communication_tasks,
                   relay, events>>

\* The frames written so far, with the one the call queued for the peer (if any).
Written(sent, c, c2) ==
    IF c2.inbox["S"] # c.inbox["S"]
    THEN Append(sent, c2.inbox["S"][Len(c2.inbox["S"])])
    ELSE sent

WorkerSend(f) ==
    /\ AtOp(f, "send")
    /\ LET r == CommSend(Chan(f), "W", Op(f).arg)
       IN  /\ WorkerAfter(f, r, "send", "none")
           /\ log' = [log EXCEPT ![f].sent = Written(@, Chan(f), r.c)]

WorkerClose(f) ==
    /\ AtOp(f, "close") /\ Op(f).block = "False"
    /\ WorkerAfter(f, Ok(CommClose(Chan(f), "W"), None), "close", "False")
    /\ UNCHANGED log

\* comm.connection.close(): the transport is closed without a CLOSE sentinel.
WorkerTeardown(f) ==
    /\ AtOp(f, "teardown")
    /\ WorkerAfter(f, Ok(ConnClose(Chan(f), "W"), None), "teardown", "none")
    /\ UNCHANGED log

WorkerCloseAckBegin(f) ==
    /\ AtOp(f, "close") /\ Op(f).block = "True"
    /\ IF closed[f]["W"]
       THEN WorkerAfter(f, Ok(Chan(f), None), "close", "True")
       ELSE /\ SetChan(f, CloseSentinel(Chan(f), "W"))
            /\ pend' = [pend EXCEPT ![f]["W"] = "ack"]
            /\ UNCHANGED <<config, n_called, calls, rejected, futures, live, worker_comms,
                           communication_tasks, ret, wpc, relay, events>>
    /\ UNCHANGED log

WorkerCloseAckEnd(f) ==
    /\ futures[f].state = "running"
    /\ pend[f]["W"] = "ack"
    /\ closed[f]["W"] \/ Readable(Chan(f), "W")
    /\ WorkerAfter(f, Ok(CloseTransport(ConnRecv(Chan(f), "W").c, "W"), None), "close", "True")
    /\ UNCHANGED log

WorkerRequestNB(f) ==
    /\ AtOp(f, "request") /\ Op(f).block = "False"
    /\ WorkerAfter(f, CommRequestNB(Chan(f), "W", Default), "request", "False")
    /\ UNCHANGED log

WorkerRequestBegin(f) ==
    /\ AtOp(f, "request") /\ Op(f).block \in {"True", "num"}
    /\ LET r == CommRequestSend(Chan(f), "W", Op(f).arg)
       IN  /\ IF r.exc # "none"
              THEN WorkerAfter(f, r, "request", Op(f).block)
              ELSE /\ SetChan(f, r.c)
                   /\ pend' = [pend EXCEPT ![f]["W"] = Op(f).block]
                   /\ UNCHANGED <<config, n_called, calls, rejected, futures, live, worker_comms,
                                  communication_tasks, ret, wpc, relay, events>>
           /\ log' = [log EXCEPT ![f].sent = Written(@, Chan(f), r.c)]

WorkerRequestRecv(f) ==
    /\ futures[f].state = "running"
    /\ pend[f]["W"] \in {"True", "num"}
    /\ closed[f]["W"] \/ Readable(Chan(f), "W")
    /\ WorkerAfter(f, CommRequestRecv(Chan(f), "W"), "request", pend[f]["W"])
    /\ UNCHANGED log

WorkerRequestTimeout(f) ==
    /\ futures[f].state = "running"
    /\ pend[f]["W"] = "num"
    /\ ~closed[f]["W"] /\ ~Readable(Chan(f), "W")
    /\ WorkerAfter(f, Ok(Chan(f), Default), "request", "num")
    /\ UNCHANGED log

\* What the function returns (or raises) at its return statement.
Outcome(f) ==
    LET reply == ret[f]["W"].val
    IN  CASE Op(f).block = "mul" ->
                IF IsInt(reply)
                THEN [state |-> "returned", result |-> PyInt(Arg(f) * reply[2])]
                ELSE [state |-> "raised", result |-> Exc("TypeError")]
          [] Op(f).block = "reply" -> [state |-> "returned", result |-> reply]
          [] OTHER -> [state |-> "returned", result |-> None]

WorkerReturn(f) ==
    /\ AtOp(f, "return")
    /\ futures' = [futures EXCEPT ![f] = Outcome(f)]
    /\ SetChan(f, Exit(Chan(f)))
    /\ UNCHANGED <<config, n_called, calls, rejected, live, worker_comms, communication_tasks,
                   pend, ret, wpc, relay, events, log>>

WorkerRaise(f) ==
    /\ AtOp(f, "raise")
    /\ futures' = [futures EXCEPT ![f] = [state |-> "raised", result |-> Exc("ValueError")]]
    /\ SetChan(f, Exit(Chan(f)))
    /\ UNCHANGED <<config, n_called, calls, rejected, live, worker_comms, communication_tasks,
                   pend, ret, wpc, relay, events, log>>

(***************************************************************************)
(* The scheduler's loop: completed futures and the relay loops.            *)
(***************************************************************************)
\* The event of a completed future.
OutcomeEvent(fut) ==
    CASE fut.state = "returned" -> TaskEv("RETURNED", fut.result)
      [] fut.state = "raised" -> TaskEv("EXCEPTION", fut.result)
      [] OTHER -> TaskEv("CANCELLED", None)

\* The events emitted for a future the loop has observed complete.
Completion(fut) == <<OutcomeEvent(fut), TaskEv("DONE", None)>>

\* Faulty variant of Untrack: a processed future stays in the tracking set.
Untrack_Kept(S, f) == S

\* The future is no longer tracked once its events are emitted.
Untrack(S, f) == S \ {f}

\* Faulty variant of Reraised: the outcome is read with future.result().
Reraised_ByResult(fut) == fut.state = "raised"

\* Whether reading the outcome of a completed future raises in the loop: the
\* exception of the callable is read as a value and becomes the payload of
\* EXCEPTION.
Reraised(fut) == FALSE

\* The loop handles a completed future; an exception raised here ends the
\* loop and leaves run().
ProcessFuture(f) ==
    /\ f \in live
    /\ futures[f].state \in Done
    /\ sched.error = None
    /\ IF Reraised(futures[f])
       THEN /\ sched' = [sched EXCEPT !.error = futures[f].result]
            /\ UNCHANGED <<events, live>>
       ELSE /\ events' = [events EXCEPT ![f] = @ \o Completion(futures[f])]
            /\ live' = Untrack(live, f)
            /\ sched' = sched
    /\ UNCHANGED <<mode, function, policy, call_limit, napi, bus, bucket, opt, n_called, calls, rejected,
                   futures, worker_comms, communication_tasks, inbox, closed, pend, ret, wpc,
                   relay, log>>

\* Msg.respond(response), line 447, for each response of the handlers.
Respond(c, msg, vs) ==
    IF vs = {} THEN c ELSE CommSend(c, msg.comm[2], CHOOSE v \in vs : TRUE).c

\* The number of (REQUEST, msg) frames among frames.
NRequests(frames) == Len(SelectSeq(frames, LAMBDA v : Classify(v) = "REQUEST"))

\* Bookkeeping for the claims: the relay has read a frame and the handlers
\* respond vs.  When the frame is the REQUEST of the request() call the
\* worker is blocked in, and a handler responds v, then v is owed to that
\* call (the worker's wpc[f]-th operation).
Owed(f, ev, vs, owed) ==
    IF /\ ev = "REQUEST" /\ vs # {}
       /\ pend[f]["W"] \in {"True", "num"}
       /\ NRequests(log[f].read) + 1 = NRequests(log[f].sent)
    THEN <<[n |-> wpc[f], val |-> CHOOSE v \in vs : TRUE]>>
    ELSE owed

\* Faulty variant of LoopExit: the scheduler-side comm is not closed first.
LoopExit_WorkerFirst == "close_worker"

\* _communicate: where a break of the loop leads, line 417.
LoopExit == "close_comm"

\* Faulty variant of OnClose: the loop goes on reading after CLOSE.
OnClose_KeepReading == "recv"

\* _communicate, line 401: break.
OnClose == LoopExit

\* Faulty variant of EventsOnEOF: CLOSE is emitted for an EOF too.
EventsOnEOF_EmitsClose(evs) == Append(evs, TaskEv("CLOSE", None))

\* _communicate, lines 409-411: EOFError is logged, nothing is emitted.
EventsOnEOF(evs) == evs

\* One pass of the loop of _communicate, lines 378-411.  Only EOFError ends
\* the loop in order; any other exception leaves the coroutine ("failed").
RelayRecv(f) ==
    /\ relay[f] = "recv"
    /\ Readable(Chan(f), "S")
    /\ LET r == AsyncCommRequest(Chan(f), "S", None)
           ev == Classify(r.val)
           msg == Msg(<<f, "S">>, f, Payload(r.val))
       IN  IF r.exc # "none"
           THEN /\ relay' = [relay EXCEPT ![f] =
                                IF r.exc = "EOFError" THEN LoopExit ELSE "failed"]
                /\ events' = [events EXCEPT ![f] =
                                 IF r.exc = "EOFError" THEN EventsOnEOF(@) ELSE @]
                /\ UNCHANGED <<inbox, closed, log>>
           ELSE /\ log' = [log EXCEPT ![f].read = Append(@, r.val),
                                       ![f].owed = Owed(f, ev, Responses(ev, msg), @)]
                /\ IF ev = "CLOSE"
                   THEN /\ events' = [events EXCEPT ![f] = Append(@, TaskEv("CLOSE", None))]
                        /\ relay' = [relay EXCEPT ![f] = OnClose]
                        /\ SetChan(f, r.c)
                   ELSE /\ events' = [events EXCEPT ![msg.future] =
                                         Append(@, Ev(ev, msg.data, msg.comm))]
                        /\ relay' = relay
                        /\ LET g == msg.comm[1]
                               io == [inbox |-> [inbox EXCEPT ![f] = r.c.inbox],
                                      closed |-> [closed EXCEPT ![f] = r.c.closed]]
                               c2 == Respond([inbox |-> io.inbox[g], closed |-> io.closed[g]],
                                             msg, Responses(ev, msg))
                           IN  /\ inbox' = [io.inbox EXCEPT ![g] = c2.inbox]
                               /\ closed' = [io.closed EXCEPT ![g] = c2.closed]
    /\ UNCHANGED <<config, n_called, calls, rejected, futures, live, worker_comms,
                   communication_tasks, pend, ret, wpc>>

\* _communicate, line 417: comm.close(wait_for_ack=False).
RelayCloseComm(f) ==
    /\ relay[f] = "close_comm"
    /\ SetChan(f, CommClose(Chan(f), "S"))
    /\ relay' = [relay EXCEPT ![f] = "close_worker"]
    /\ UNCHANGED <<config, n_called, calls, rejected, futures, live, worker_comms,
                   communication_tasks, pend, ret, wpc, events, log>>

\* The orchestrator's reference to the worker-side endpoint.
WorkerRef == IF mode = "process" THEN "M" ELSE "W"

\* _communicate, lines 420-421: worker_comms.pop(future).close().
RelayCloseWorker(f) ==
    /\ relay[f] = "close_worker"
    /\ worker_comms' = worker_comms \ {f}
    /\ SetChan(f, CommClose(Chan(f), WorkerRef))
    /\ relay' = [relay EXCEPT ![f] = "done"]
    /\ UNCHANGED <<config, n_called, calls, rejected, futures, live, communication_tasks,
                   pend, ret, wpc, events, log>>

Next ==
    \/ \E k \in 0..1 : Call(k)
    \/ \E f \in F :
        \/ WorkerStart(f)
        \/ Cancel(f)
        \/ WorkerSend(f)
        \/ WorkerClose(f)
        \/ WorkerTeardown(f)
        \/ WorkerCloseAckBegin(f)
        \/ WorkerCloseAckEnd(f)
        \/ WorkerRequestNB(f)
        \/ WorkerRequestBegin(f)
        \/ WorkerRequestRecv(f)
        \/ WorkerRequestTimeout(f)
        \/ WorkerReturn(f)
        \/ WorkerRaise(f)
        \/ ProcessFuture(f)
        \/ RelayRecv(f)
        \/ RelayCloseComm(f)
        \/ RelayCloseWorker(f)

Spec == Init /\ [][Next]_vars

\* Two invocations at once for the docstring's example and for stream, one
\* invocation for the other functions.
InitLive ==
    /\ Init
    /\ call_limit = IF function \in {calculate, stream} THEN 2 ELSE 1
    /\ policy \in {"none", "two"}

\* The scheduler's loop keeps running: a completed future that is tracked is
\* processed, and a relay whose awaited read can complete is resumed.
FairSpec ==
    /\ InitLive /\ [][Next]_vars
    /\ \A f \in F : WF_vars(ProcessFuture(f)) /\ WF_vars(RelayRecv(f))

\* As FairSpec, and a relay that has left its loop goes on through its
\* cleanup.
FairRelaySpec ==
    /\ FairSpec
    /\ \A f \in F : WF_vars(RelayCloseComm(f)) /\ WF_vars(RelayCloseWorker(f))

(***************************************************************************)
(* SpecSched: Scheduler.run() around the task.  The loop thread observes   *)
(* completed futures and readable relays, and dispatches them one callback *)
(* at a time; the workers run in parallel with it.  A callback is in       *)
(* progress from DispatchBegin to DispatchEnd; in between it emits (the    *)
(* actions of Spec) and its handlers may submit or call stop().            *)
(***************************************************************************)
others == <<bus, bucket, opt, mode, function, policy, call_limit, napi, n_called, calls, rejected, futures,
            live, worker_comms, communication_tasks, inbox, closed, pend, ret,
            wpc, relay, events, log>>

\* Faulty variant of Running: false from the stop decision on, before STOPPED.
Running_UntilDecision == sched.phase = "running"

\* Scheduler.running(): true between STARTED and STOPPED.
Running == sched.phase \in {"running", "draining"}

\* Faulty variant of RelayThread: each relay emits from a thread of its own.
RelayThread_Own == "relay"

\* _communicate is a coroutine made with asyncio.create_task (lines 363-365):
\* it runs on the scheduler's event loop, and lines 381-407 hold no await.
RelayThread == "loop"

ThreadOf(kind) == IF kind = "relay" THEN RelayThread ELSE "loop"

\* A callback in progress: what it is dispatched for, and how many frames
\* the relay had read and how many calls had been made when it began.
Item(kind, f) ==
    [kind |-> kind, f |-> f, thread |-> ThreadOf(kind),
     nread |-> IF f = 0 THEN 0 ELSE Len(log[f].read), ncalls |-> Len(calls)]

SeqOf(S) == SelectSeq([i \in 1..MaxCalls |-> i], LAMBDA f : f \in S)

ReadyFutures == {f \in live : futures[f].state \in Done}
ReadyRelays == {f \in F : relay[f] = "recv" /\ Readable(Chan(f), "S")}

\* What one pass of the loop observes: the completed futures, then the
\* relays with something to read.
Observed ==
    [i \in 1..Cardinality(ReadyFutures) |-> <<"future", SeqOf(ReadyFutures)[i]>>]
    \o [i \in 1..Cardinality(ReadyRelays) |-> <<"relay", SeqOf(ReadyRelays)[i]>>]

\* Faulty variant of StopCond: the empty condition does not look at the
\* outstanding futures.
StopCond_EmptyUnchecked == sched.stop \/ sched.elapsed \/ sched.end_on_empty

\* The stop conditions: stop(), timeout elapsed, end_on_empty with nothing
\* outstanding.
StopCond == sched.stop \/ sched.elapsed \/ (sched.end_on_empty /\ live = {})

\* The emission of the callback has happened.
Performed(a) ==
    CASE a.kind = "future" -> a.f \notin live
      [] a.kind = "relay" -> Len(log[a.f].read) > a.nread \/ relay[a.f] # "recv"
      [] OTHER -> TRUE

\* run(timeout, wait, end_on_empty): STARTED is emitted; its subscribers are
\* the first batch.
SchedRun(w, e, t) ==
    /\ sched.phase = "init"
    /\ sched' = [sched EXCEPT !.phase = "running", !.wait = w, !.end_on_empty = e,
                              !.timeout = t, !.started = @ + 1,
                              !.batch = << <<"start", 0>> >>]
    /\ UNCHANGED others

\* The timeout of run() elapses.
SchedTimeout ==
    /\ sched.phase = "running" /\ sched.timeout /\ ~sched.elapsed
    /\ sched' = [sched EXCEPT !.elapsed = TRUE]
    /\ UNCHANGED others

\* Faulty variant of Polling: the loop goes on observing after run() is over.
Polling_Always == sched.phase # "init"

\* The loop observes futures and comms while run() is in progress.
Polling == Running

\* One pass of the loop: the batch of what it observes; once a stop condition
\* holds no new batch is taken, except to drain.
LoopPoll ==
    /\ Polling
    /\ sched.active = {} /\ sched.batch = <<>>
    /\ sched.phase = "running" => ~StopCond
    /\ Observed # <<>>
    /\ sched' = [sched EXCEPT !.batch = Observed]
    /\ UNCHANGED others

\* The next callback of the batch begins, once the thread it runs on is free.
DispatchBegin ==
    /\ sched.batch # <<>>
    /\ LET h == Head(sched.batch)
       IN  /\ \A a \in sched.active : a.thread # ThreadOf(h[1])
           /\ sched' = [sched EXCEPT !.batch = Tail(@),
                                     !.active = @ \cup {Item(h[1], h[2])}]
    /\ UNCHANGED others

\* The callback for a completed future emits its outcome and DONE.
SProcessFuture(f) ==
    /\ \E a \in sched.active : a.kind = "future" /\ a.f = f
    /\ ProcessFuture(f)

\* The relay of f is resumed with what it awaited.
SRelayRecv(f) ==
    /\ \E a \in sched.active : a.kind = "relay" /\ a.f = f /\ ~Performed(a)
    /\ RelayRecv(f)

SRelayCloseComm(f) ==
    /\ \E a \in sched.active : a.kind = "relay" /\ a.f = f
    /\ RelayCloseComm(f)

SRelayCloseWorker(f) ==
    /\ \E a \in sched.active : a.kind = "relay" /\ a.f = f
    /\ RelayCloseWorker(f)

\* A handler of on_start, or of the outcome of a future, submits (at most
\* once in a callback) if scheduler.running().
SCall(k) ==
    /\ \E a \in sched.active :
          /\ a.kind \in {"start", "future"}
          /\ Performed(a)
          /\ Len(calls) = a.ncalls
    /\ Running
    /\ Call(k)

\* A handler calls scheduler.stop().
HandlerStop ==
    /\ sched.phase = "running" /\ ~sched.stop
    /\ \E a \in sched.active : Performed(a)
    /\ sched' = [sched EXCEPT !.stop = TRUE]
    /\ UNCHANGED others

\* The callback is over.
DispatchEnd ==
    /\ \E a \in sched.active :
          /\ Performed(a)
          /\ a.kind = "relay" => relay[a.f] \notin {"close_comm", "close_worker"}
          /\ sched' = [sched EXCEPT !.active = @ \ {a}]
    /\ UNCHANGED others

\* A relay that is still awaiting when the loop is torn down is cancelled:
\* CancelledError is raised at line 380, is not caught by line 409, and
\* lines 413-423 are not run.
RelayCancel(rel) == [f \in F |-> IF rel[f] = "recv" THEN "cancelled" ELSE rel[f]]

\* Faulty variant of SafePoint: the loop may exit at any moment.
SafePoint_Anytime == TRUE

\* The loop checks its stop conditions between batches: no callback is in
\* progress and none of the batch is left.
SafePoint == sched.active = {} /\ sched.batch = <<>>

\* The stop decision with wait=True: the loop goes on until everything
\* submitted has been drained.
SchedDecide ==
    /\ sched.phase = "running" /\ sched.wait
    /\ SafePoint
    /\ StopCond
    /\ sched' = [sched EXCEPT !.phase = "draining"]
    /\ UNCHANGED others

\* wait=True: all is drained; what is left of the loop is cancelled, STOPPED
\* is emitted and run() returns.
SchedTeardown ==
    /\ sched.phase = "draining"
    /\ sched.active = {} /\ sched.batch = <<>>
    /\ live = {} /\ Observed = <<>>
    /\ relay' = RelayCancel(relay)
    /\ sched' = [sched EXCEPT !.phase = "stopped", !.stopped = @ + 1]
    /\ UNCHANGED <<bus, bucket, opt, mode, function, policy, call_limit, napi, n_called, calls, rejected, futures,
                   live, worker_comms, communication_tasks, inbox, closed, pend, ret,
                   wpc, events, log>>

\* The stop decision with wait=False: futures not yet started are cancelled,
\* the others abandoned; STOPPED is emitted and run() returns.
SchedAbandon ==
    /\ sched.phase = "running" /\ ~sched.wait
    /\ SafePoint
    /\ StopCond
    /\ futures' = [f \in F |-> IF futures[f].state = "pending"
                               THEN [futures[f] EXCEPT !.state = "cancelled"]
                               ELSE futures[f]]
    /\ relay' = RelayCancel(relay)
    /\ sched' = [sched EXCEPT !.phase = "stopped", !.stopped = @ + 1]
    /\ UNCHANGED <<bus, bucket, opt, mode, function, policy, call_limit, napi, n_called, calls, rejected, live,
                   worker_comms, communication_tasks, inbox, closed, pend, ret,
                   wpc, events, log>>

InitSched ==
    /\ InitChannels
    /\ napi = 0
    /\ sched = NoSched
    /\ bus = NoBus
    /\ bucket = NoBucket
    /\ opt = NoOpt
    /\ mode \in {"thread", "process"}
    /\ function \in {calculate, stream, failing}
    /\ policy = "two"
    /\ call_limit = IF function = stream THEN 1 ELSE 2
    /\ n_called = 0
    /\ calls = <<>>
    /\ rejected = <<>>
    /\ futures = [f \in F |-> [state |-> "none", result |-> None]]
    /\ live = {}
    /\ worker_comms = {}
    /\ communication_tasks = {}
    /\ wpc = [f \in F |-> 0]
    /\ relay = [f \in F |-> "none"]
    /\ events = [f \in F |-> <<>>]
    /\ log = [f \in F |-> NoLog]

LoopStep ==
    \/ LoopPoll
    \/ DispatchBegin
    \/ DispatchEnd
    \/ SchedDecide
    \/ SchedTeardown
    \/ SchedAbandon
    \/ \E f \in F :
        \/ SProcessFuture(f)
        \/ SRelayRecv(f)
        \/ SRelayCloseComm(f)
        \/ SRelayCloseWorker(f)

WorkerStep(f) ==
    \/ WorkerStart(f)
    \/ WorkerSend(f)
    \/ WorkerClose(f)
    \/ WorkerRequestBegin(f)
    \/ WorkerRequestRecv(f)
    \/ WorkerReturn(f)
    \/ WorkerRaise(f)

NextSched ==
    \/ \E w, e, t \in BOOLEAN : SchedRun(w, e, t)
    \/ SchedTimeout
    \/ \E k \in 0..1 : SCall(k)
    \/ HandlerStop
    \/ LoopStep
    \/ \E f \in F : WorkerStep(f)

SpecSched == InitSched /\ [][NextSched]_vars

\* The loop thread keeps taking the steps it can take.
FairLoopSpecSched == SpecSched /\ WF_vars(LoopStep)

\* The loop thread and every worker keep taking the steps they can take.
FairSpecSched ==
    /\ SpecSched
    /\ WF_vars(LoopStep)
    /\ \A f \in F : WF_vars(WorkerStep(f))

(***************************************************************************)
(* SpecBus: an EventBus with subscribers for two events; some subscribers  *)
(* raise, some are repeat-limited.                                         *)
(***************************************************************************)
BusEvents == {"A", "B"}

\* A subscription: the id is its rank of registration; a limited one is
\* removed after left more invocations.
Subscription(id, ev, limited, left, raises) ==
    [id |-> id, event |-> ev, limited |-> limited, left |-> left, raises |-> raises]

\* subscribe(event, callback, repeat).
Subscribe(b, ev, limited, left, raises) ==
    LET sub == Subscription(b.nsub + 1, ev, limited, left, raises)
    IN  [b EXCEPT !.nsub = @ + 1, !.subs = Append(@, sub),
                  !.reg = Append(@, sub), !.count = Append(@, 0)]

\* Faulty variant of Used: an exhausted subscription stays on the bus.
Used_Kept(s) ==
    IF ~s.limited \/ s.left = 1 THEN <<s>> ELSE <<[s EXCEPT !.left = @ - 1]>>

\* The subscription after one invocation: none when it was the last one of
\* a repeat-limited subscription.
Used(s) ==
    IF ~s.limited THEN <<s>>
    ELSE IF s.left = 1 THEN <<>>
    ELSE <<[s EXCEPT !.left = @ - 1]>>

\* Faulty variant of Escapes: the callback is called without a guard.
Escapes_Unguarded(raises) == raises

\* Whether an exception raised by a callback leaves emit: it is caught and
\* logged.
Escapes(raises) == FALSE

RECURSIVE EmitTo(_, _)

\* emit(event) over the subscriptions in registration order: the
\* subscriptions left, the ids invoked in order, the ids whose exception was
\* caught, and whether an exception left the loop.
EmitTo(subs, ev) ==
    IF subs = <<>>
    THEN [subs |-> <<>>, invoked |-> <<>>, caught |-> <<>>, escaped |-> FALSE]
    ELSE LET sub == Head(subs)
         IN  IF sub.event # ev
             THEN LET r == EmitTo(Tail(subs), ev)
                  IN  [r EXCEPT !.subs = <<sub>> \o @]
             ELSE IF Escapes(sub.raises)
             THEN [subs |-> Used(sub) \o Tail(subs), invoked |-> <<sub.id>>,
                   caught |-> <<>>, escaped |-> TRUE]
             ELSE LET r == EmitTo(Tail(subs), ev)
                  IN  [subs |-> Used(sub) \o r.subs,
                       invoked |-> <<sub.id>> \o r.invoked,
                       caught |-> (IF sub.raises THEN <<sub.id>> ELSE <<>>) \o r.caught,
                       escaped |-> r.escaped]

\* emit(event).
Emit(b, ev) ==
    LET r == EmitTo(b.subs, ev)
        invoked == {r.invoked[i] : i \in 1..Len(r.invoked)}
    IN  [b EXCEPT !.subs = r.subs, !.nemit = @ + 1,
                  !.count = [id \in 1..Len(@) |->
                                IF id \in invoked THEN @[id] + 1 ELSE @[id]],
                  !.last = [event |-> ev, invoked |-> r.invoked,
                            caught |-> r.caught, escaped |-> r.escaped]]

notBus == <<sched, bucket, opt, mode, function, policy, call_limit, napi, n_called, calls, rejected, futures,
            live, worker_comms, communication_tasks, inbox, closed, pend, ret,
            wpc, relay, events, log>>

BusSubscribe(ev, limited, left, raises) ==
    /\ bus.nsub < MaxSubs
    /\ bus' = Subscribe(bus, ev, limited, left, raises)
    /\ UNCHANGED notBus

BusEmit(ev) ==
    /\ bus.nemit < MaxEmits
    /\ bus' = Emit(bus, ev)
    /\ UNCHANGED notBus

InitBus == InitComm

NextBus ==
    \/ \E ev \in BusEvents, limited, raises \in BOOLEAN, left \in 1..2 :
          /\ ~limited => left = 1
          /\ BusSubscribe(ev, limited, left, raises)
    \/ \E ev \in BusEvents : BusEmit(ev)

SpecBus == InitBus /\ [][NextBus]_vars

(***************************************************************************)
(* SpecBucket: a Bucket over two keys; resources are stored in it and      *)
(* fetched with a default that is None, a plain value or a dict.           *)
(***************************************************************************)
Resources == {PyInt(1), PyInt(2)}

\* The defaults passed to fetch.
Defaults ==
    {None, PyInt(0)} \cup {PyDict(d) : d \in [Keys -> {Absent, PyInt(7)}]}

\* dict.get(key, default).
DictGet(d, key, default) == IF d[key] # Absent THEN d[key] ELSE default

\* Drop.get(default): the resource if it is stored, else the default.
DropGet(store, key, default) == DictGet(store, key, default)

\* Bucket.fetch, lines 224-227: the default handed to the Drop of key.
FetchDefault(key, default) ==
    LET default_dict == IF ~IsDict(default) THEN NoDict(Keys) ELSE default[2]
    IN  DictGet(default_dict, key, default)

\* Bucket.fetch, lines 225-227: the dict returned.
Fetch(store, keys, default) ==
    [key \in Keys |->
        IF key \in keys THEN DropGet(store, key, FetchDefault(key, default)) ELSE Absent]

notBucket == <<sched, bus, opt, mode, function, policy, call_limit, napi, n_called, calls, rejected,
               futures, live, worker_comms, communication_tasks, inbox, closed, pend,
               ret, wpc, relay, events, log>>

\* bucket[key] = value.
BucketSet(key, value) ==
    /\ bucket' = [bucket EXCEPT !.store[key] = value]
    /\ UNCHANGED notBucket

\* bucket.fetch(keys, default=default).
BucketFetch(keys, default) ==
    /\ bucket' = [bucket EXCEPT !.keys = keys, !.default = default,
                                !.result = Fetch(bucket.store, keys, default)]
    /\ UNCHANGED notBucket

InitBucket == InitComm

NextBucket ==
    \/ \E key \in Keys, value \in Resources : BucketSet(key, value)
    \/ \E keys \in SUBSET Keys, default \in Defaults : BucketFetch(keys, default)

SpecBucket == InitBucket /\ [][NextBucket]_vars

(***************************************************************************)
(* SpecOpt: a NEPSOptimizer and rounds of ask / evaluate / tell with the   *)
(* target function of the tests; a trial may also crash.                   *)
(***************************************************************************)
\* A dict with the given loss and cost (Absent for a key left out).
Results(loss, cost) == [k \in ResultKeys |-> IF k = "loss" THEN loss ELSE cost]

\* float(v).
ToFloat(v) == PyFloat(v[2])

\* d.get(key) is not None.
Given(d, key) == d[key] # Absent /\ d[key] # None

\* NEPSOptimizer.__init__, lines 240-269; budget is that of the searcher.
NEPSInit(o, ignore_errors, loss_value_on_error, cost_value_on_error, budget) ==
    [o EXCEPT !.phase = "created", !.ignore_errors = ignore_errors,
              !.loss_value_on_error = loss_value_on_error,
              !.cost_value_on_error = cost_value_on_error,
              !.budget = budget]

\* NEPSOptimizer.create, lines 278-345: cls(...) is called at lines 338-345
\* without ignore_errors, which is then the default of line 247.
NEPSCreate(o, ignore_errors, loss_value_on_error, cost_value_on_error, max_cost_total) ==
    NEPSInit([o EXCEPT !.args = [ignore_errors |-> ignore_errors,
                                 loss_value_on_error |-> loss_value_on_error,
                                 cost_value_on_error |-> cost_value_on_error]],
             TRUE, loss_value_on_error, cost_value_on_error, max_cost_total)

\* NEPSOptimizer.ask, lines 347-387: a new Trial with an info of its own.
NEPSAsk(o) ==
    [o EXCEPT !.phase = "asked", !.info = @ + 1, !.kind = "none", !.err = "none",
              !.passed = NoDict(ResultKeys), !.report = NoReport, !.raised = "none"]

\* Faulty variant of Swallowed: begin() lets the exception through.
Swallowed_Never(err) == FALSE

\* Whether trial.begin() keeps an exception raised in its block: it records
\* the exception and the traceback and the function goes on after the block.
Swallowed(err) == TRUE

\* The report made by trial.success / trial.fail / trial.crashed.
Report(o, status, results, exception) ==
    [status |-> status, results |-> results, exception |-> exception,
     traceback |-> IF exception = "none" THEN "none" ELSE "traceback",
     info |-> o.info, kind |-> o.kind, start |-> o.start, end |-> o.clock[o.kind]]

\* target_function, lines 16-27, from the body of the with block on.
Target(o, err, success, fail) ==
    IF err = "none"
    THEN [o EXCEPT !.phase = "reported", !.passed = success,
                   !.report = Report(o, "SUCCESS", success, "none")]
    ELSE IF Swallowed(err)
    THEN [o EXCEPT !.phase = "reported", !.err = err, !.passed = fail,
                   !.report = Report(o, "FAIL", fail, err)]
    ELSE [o EXCEPT !.phase = "raised", !.err = err, !.raised = err]

\* NEPSOptimizer.tell, lines 404-409: the error branch.
TellError(o) ==
    IF o.ignore_errors THEN o
    ELSE LET r1 == IF o.loss_value_on_error # None
                   THEN [o.report.results EXCEPT !["loss"] = o.loss_value_on_error]
                   ELSE o.report.results
             r2 == IF o.cost_value_on_error # None
                   THEN [r1 EXCEPT !["cost"] = o.cost_value_on_error]
                   ELSE r1
         IN  [o EXCEPT !.report.results = r2]

\* NEPSOptimizer.tell, lines 410-441: the branch of a report with results;
\* result is report.results itself, so result["cost"] = cost writes there.
TellResult(o) ==
    LET result == o.report.results
    IN  IF ~Given(result, "loss") THEN [o EXCEPT !.raised = "ValueError"]
        ELSE LET r1 == [result EXCEPT !["loss"] = ToFloat(@)]
             IN  IF Given(result, "cost")
                 THEN [o EXCEPT !.report.results = [r1 EXCEPT !["cost"] = ToFloat(@)],
                                !.used_budget = @ + result["cost"][2]]
                 ELSE IF o.budget # None
                 THEN [o EXCEPT !.report.results = r1, !.raised = "ValueError"]
                 ELSE [o EXCEPT !.report.results = r1]

\* NEPSOptimizer.tell, lines 389-450.
NEPSTell(o) ==
    LET told == [o EXCEPT !.phase = "told"]
    IN  IF o.report.status \in {"CRASHED", "FAIL"} THEN TellError(told) ELSE TellResult(told)

notOpt == <<sched, bus, bucket, mode, function, policy, call_limit, napi, n_called, calls, rejected,
            futures, live, worker_comms, communication_tasks, inbox, closed, pend,
            ret, wpc, relay, events, log>>

\* NEPSOptimizer.create(...).
OptCreate(ignore_errors, loss, cost, budget) ==
    /\ opt.phase = "none"
    /\ opt' = NEPSCreate(opt, ignore_errors, loss, cost, budget)
    /\ UNCHANGED notOpt

\* NEPSOptimizer(...), the constructor called directly.
OptInit(ignore_errors, loss, cost, budget) ==
    /\ opt.phase = "none"
    /\ opt' = NEPSInit([opt EXCEPT !.args = [ignore_errors |-> ignore_errors,
                                             loss_value_on_error |-> loss,
                                             cost_value_on_error |-> cost]],
                       ignore_errors, loss, cost, budget)
    /\ UNCHANGED notOpt

\* trial = optimizer.ask().
OptAsk ==
    /\ opt.phase \in {"created", "told"}
    /\ opt.info < MaxTrials
    /\ opt' = NEPSAsk(opt)
    /\ UNCHANGED notOpt

\* with trial.begin(time=kind): the timer of that kind is started.
TrialBegin(kind) ==
    /\ opt.phase = "asked"
    /\ opt' = [opt EXCEPT !.phase = "begun", !.kind = kind, !.start = opt.clock[kind]]
    /\ UNCHANGED notOpt

\* Time passes on the clock of one kind while the target runs.
ClockTick(kind) ==
    /\ opt.phase = "begun"
    /\ opt.clock[kind] < MaxClock
    /\ opt' = [opt EXCEPT !.clock[kind] = @ + 1]
    /\ UNCHANGED notOpt

\* The body of the with block raises err or returns trial.success(...).
TargetRun(err, success, fail) ==
    /\ opt.phase = "begun"
    /\ opt' = Target(opt, err, success, fail)
    /\ UNCHANGED notOpt

\* The worker of the trial dies: the report is made by trial.crashed().
TrialCrashed ==
    /\ opt.phase = "asked"
    /\ opt' = [opt EXCEPT !.phase = "reported", !.kind = "WALL", !.start = opt.clock["WALL"],
                          !.report = Report([opt EXCEPT !.kind = "WALL",
                                                        !.start = opt.clock["WALL"]],
                                            "CRASHED", NoDict(ResultKeys), "crash")]
    /\ UNCHANGED notOpt

\* optimizer.tell(report).
OptTell ==
    /\ opt.phase = "reported"
    /\ opt' = NEPSTell(opt)
    /\ UNCHANGED notOpt

InitOpt == InitComm

OnError == {None, PyFloat(5)}
SuccessResults == {Results(Absent, PyInt(1)), Results(PyInt(3), Absent),
                   Results(PyInt(3), PyInt(1))}
FailResults == {Results(Absent, PyInt(2000)), NoDict(ResultKeys)}

NextOpt ==
    \/ \E ie \in BOOLEAN, loss, cost \in OnError, budget \in {None, PyInt(10)} :
          OptCreate(ie, loss, cost, budget)
    \/ \E ie \in BOOLEAN, loss, cost \in OnError, budget \in {None, PyInt(10)} :
          OptInit(ie, loss, cost, budget)
    \/ OptAsk
    \/ \E kind \in TimeKinds : TrialBegin(kind)
    \/ \E kind \in TimeKinds : ClockTick(kind)
    \/ \E err \in {"none", "ValueError"}, success \in SuccessResults, fail \in FailResults :
          TargetRun(err, success, fail)
    \/ TrialCrashed
    \/ OptTell

SpecOpt == InitOpt /\ [][NextOpt]_vars

(***************************************************************************)
(* Claims about the Comm API, checked under SpecComm.                      *)
(***************************************************************************)
\* The step completes a Comm call of endpoint e (every completed call gets a
\* new ordinal).
Completes(e) == ret'[1][e] # ret[1][e]

\* C6 (as claimed): request(msg, block=False, default=d), called on an
\* endpoint that has not itself been closed, sends no frame and does not
\* block; it returns the oldest queued inbound message, consuming it, if
\* there is one, and otherwise returns d and leaves the channel as it was.
C6_RequestNonBlocking ==
    [][\A e \in Sides :
        (Completes(e) /\ ret'[1][e].op = "request" /\ ret'[1][e].block = "False"
            /\ ~closed[1][e]) =>
            /\ inbox'[1][PeerSide(e)] = inbox[1][PeerSide(e)]
            /\ pend'[1][e] = Idle
            /\ ret'[1][e].exc = "none"
            /\ IF inbox[1][e] # <<>>
               THEN /\ ret'[1][e].val = Head(inbox[1][e])
                    /\ inbox'[1][e] = Tail(inbox[1][e])
               ELSE /\ ret'[1][e].val = Default
                    /\ inbox' = inbox /\ closed' = closed]_vars

\* C7 (as claimed): request(msg, block=t) and request(msg, block=True),
\* called on an endpoint that has not itself been closed, write exactly one
\* (REQUEST, msg) frame (lost only if the peer is gone) and then wait; the
\* call returns the next inbound message, or, for numeric t only, d when the
\* timeout elapses with nothing to read.
C7_RequestBlocking ==
    [][\A e \in Sides :
        /\ (pend[1][e] = Idle /\ pend'[1][e] \in {"True", "num"}) =>
              \/ inbox'[1][PeerSide(e)] =
                     Append(inbox[1][PeerSide(e)], PyTuple2(REQUEST, None))
              \/ /\ SideClosed(Chan(1), PeerSide(e))
                 /\ inbox' = inbox
        /\ (Completes(e) /\ ret'[1][e].op = "request"
                /\ ret'[1][e].block \in {"True", "num"} /\ ~closed[1][e]) =>
              /\ pend[1][e] = ret'[1][e].block
              /\ ret'[1][e].exc = "none"
              /\ IF inbox[1][e] # <<>>
                 THEN /\ ret'[1][e].val = Head(inbox[1][e])
                      /\ inbox'[1][e] = Tail(inbox[1][e])
                 ELSE /\ ret'[1][e].block = "num"
                      /\ ret'[1][e].val = Default]_vars

\* C9: close() never raises, and a close() on an endpoint that has completed
\* a close() before writes no frame (no second CLOSE sentinel), reads
\* nothing, and changes nothing of the channel.
C9_CloseIdempotent ==
    [][\A e \in Sides :
        (Completes(e) /\ ret'[1][e].op = "close") =>
            /\ ret'[1][e].exc = "none"
            /\ ret[1][e].closes >= 1 =>
                  /\ inbox' = inbox
                  /\ closed' = closed
                  /\ pend' = pend]_vars

\* C9 witness: an endpoint has completed two close() calls, the second one
\* with wait_for_ack=True, while the peer is still open.
C9_Witness ==
    \E e \in Sides :
        /\ ret[1][e].op = "close" /\ ret[1][e].closes >= 2
        /\ ret[1][e].block = "True"
        /\ ~SideClosed(Chan(1), PeerSide(e))

\* C10 (as claimed): Comm.send returns normally, whatever the state of the
\* channel.
C10_SendNeverRaises ==
    \A e \in Sides : ret[1][e].op = "send" => ret[1][e].exc = "none"

\* C11 (as claimed): AsyncComm.request(timeout=t, default=d), awaited on an
\* open endpoint whose peer is open, never raises: it resumes with the next
\* inbound message (consuming it) if one arrives, and otherwise, for a
\* numeric t only, with d once the timeout has elapsed, the channel left as
\* it was; with timeout=None it resumes only with a message.
C11_AsyncRequestTimeout ==
    [][\A e \in Sides :
        (Completes(e) /\ ret'[1][e].op = "arequest"
            /\ ~closed[1][e] /\ ~SideClosed(Chan(1), PeerSide(e))) =>
            /\ ret'[1][e].exc = "none"
            /\ IF inbox[1][e] # <<>>
               THEN /\ ret'[1][e].val = Head(inbox[1][e])
                    /\ inbox'[1][e] = Tail(inbox[1][e])
               ELSE /\ ret'[1][e].block = "num"
                    /\ ret'[1][e].val = Default
                    /\ inbox' = inbox]_vars

(***************************************************************************)
(* Claims about the task, its futures and its relay loops, checked under   *)
(* Spec.                                                                   *)
(***************************************************************************)
IsPrefix(a, b) == Len(a) <= Len(b) /\ \A i \in 1..Len(a) : a[i] = b[i]

Names(f) == [i \in 1..Len(events[f]) |-> events[f][i].ev]
TaskEventNames == {"SUBMITTED", "RETURNED", "EXCEPTION", "CANCELLED", "DONE"}
TaskNames(f) == SelectSeq(Names(f), LAMBDA n : n \in TaskEventNames)
RelayEvents(f) == SelectSeq(events[f], LAMBDA e : e.ev \notin TaskEventNames)
Emitted(f, ev) == \E i \in 1..Len(events[f]) : events[f][i].ev = ev
Count(f, ev) == Len(SelectSeq(events[f], LAMBDA e : e.ev = ev))

\* The futures __call__ has returned.
Made == {calls[i] : i \in 1..Len(calls)} \ {0}

\* C1: with call_limit = N exactly the first N invocations return a future
\* and every later one returns None; an invocation that returned None has
\* emitted nothing and registered nothing: every event, every tracked future,
\* every relay and every entry of worker_comms / communication_tasks belongs
\* to a future that was returned, and each returned future has one SUBMITTED.
C1_CallLimit ==
    /\ \A i \in 1..Len(calls) : (calls[i] # 0) <=> (i <= call_limit)
    /\ \A i, j \in 1..Len(calls) : (i # j /\ calls[i] # 0) => calls[i] # calls[j]
    /\ live \cup worker_comms \cup communication_tasks \subseteq Made
    /\ \A f \in F \ Made :
          events[f] = <<>> /\ futures[f].state = "none" /\ relay[f] = "none"
    /\ \A f \in Made : Count(f, "SUBMITTED") = 1 /\ futures[f].state # "none"

\* C1 witness: call_limit = 2, two invocations returned futures and a third
\* returned None.
C1_Witness ==
    /\ call_limit = 2 /\ n_called = 2
    /\ Len(calls) = 3 /\ calls[3] = 0

IsRequestFrame(v) == v[1] = "tuple" /\ Len(v) = 3 /\ v[2] = REQUEST
IsPlain(v) == ~IsRequestFrame(v) /\ v # CLOSE

\* The payloads of the MESSAGE events of a future, and the plain values its
\* worker has written with send.
Messages(f) ==
    LET ms == SelectSeq(events[f], LAMBDA e : e.ev = "MESSAGE")
    IN  [i \in 1..Len(ms) |-> ms[i].data]
PlainSent(f) == SelectSeq(log[f].sent, IsPlain)

\* C3: the payloads of the MESSAGE events are the plain values the worker
\* sent, in the order sent, none twice, none changed (at any moment a prefix
\* of them); CLOSE is emitted after every MESSAGE, and when the CLOSE comes
\* from the worker's close() every value sent before it has been emitted.
C3_MessagesInOrder ==
    \A f \in F :
        /\ IsPrefix(Messages(f), PlainSent(f))
        /\ Emitted(f, "CLOSE") =>
              /\ \A i \in 1..Len(events[f]) :
                    events[f][i].ev = "MESSAGE" =>
                        \E j \in (i + 1)..Len(events[f]) : events[f][j].ev = "CLOSE"
              /\ (\A i \in 1..Len(log[f].sent) : log[f].sent[i] # CLOSE) =>
                    /\ ret[f]["W"].closes >= 1 \/ pend[f]["W"] = "ack"
                    /\ Messages(f) = PlainSent(f)

\* C3 witness: the worker sent 10, then 20, then closed its comm, and the
\* relay has emitted MESSAGE(10), MESSAGE(20) and CLOSE.
C3_Witness ==
    \E f \in F :
        /\ function = stream
        /\ Messages(f) = <<PyInt(10), PyInt(20)>>
        /\ Emitted(f, "CLOSE")

\* C4: the events of the relay correspond one to one to the frames it has
\* read: a (REQUEST, x) frame gave REQUEST with data x, the CLOSE sentinel
\* gave CLOSE, any other value v gave MESSAGE with data v; every Msg carries
\* the scheduler-side comm of the invocation (and is recorded with its
\* future).
C4_OneEventPerFrame ==
    \A f \in F :
        LET evs == RelayEvents(f)
            read == log[f].read
        IN  /\ Len(evs) = Len(read)
            /\ \A i \in 1..Len(read) :
                  IF IsRequestFrame(read[i])
                  THEN evs[i] = Ev("REQUEST", read[i][3], <<f, "S">>)
                  ELSE IF read[i] = CLOSE
                  THEN evs[i].ev = "CLOSE"
                  ELSE evs[i] = Ev("MESSAGE", read[i], <<f, "S">>)

\* C4 witness: the relay has read a plain 2-tuple, a (REQUEST, 7) frame and
\* the CLOSE sentinel.
C4_Witness ==
    \E f \in F :
        log[f].read = <<PyTuple2(PyInt(1), PyInt(2)), PyTuple2(REQUEST, PyInt(7)), CLOSE>>

\* The events of the docstring's example.
EndToEnd(f) ==
    <<TaskEv("SUBMITTED", None),
      Ev("MESSAGE", PyInt(10), <<f, "S">>),
      Ev("MESSAGE", PyInt(20), <<f, "S">>),
      Ev("REQUEST", None, <<f, "S">>),
      TaskEv("RETURNED", PyInt(Arg(f) * 2)),
      TaskEv("DONE", None)>>

\* C5: when the function is calculate and the REQUEST handler responds 2,
\* the events of an invocation that was started are, at any moment, a prefix
\* of SUBMITTED, MESSAGE(10), MESSAGE(20), REQUEST, RETURNED(x * 2), DONE.
C5_EndToEnd ==
    (function = calculate /\ policy = "two") =>
        \A f \in F :
            \/ IsPrefix(events[f], EndToEnd(f))
            \/ /\ futures[f].state = "cancelled"
               /\ IsPrefix(events[f], <<TaskEv("SUBMITTED", None),
                                        TaskEv("CANCELLED", None), TaskEv("DONE", None)>>)

\* C5 witness: two invocations of calculate have both gone through the
\* whole sequence.
C5_Witness ==
    /\ function = calculate /\ policy = "two"
    /\ \E f, g \in F : f # g /\ events[f] = EndToEnd(f) /\ events[g] = EndToEnd(g)

\* C8 (as claimed): a blocking request() whose Msg a REQUEST handler
\* answered with respond(v) while the call was pending returns v; with no
\* handler responding, request(block=True) does not return and
\* request(block=t) returns only its default.
C8_RespondAnswersRequest ==
    \A f \in F :
        LET r == ret[f]["W"]
        IN  (r.op = "request" /\ r.block \in {"True", "num"}) =>
              /\ (log[f].owed # <<>> /\ log[f].owed[1].n = r.n) =>
                    (r.exc = "none" /\ r.val = log[f].owed[1].val)
              /\ policy = "none" =>
                    (r.exc = "none" /\ r.block = "num" /\ r.val = Default)

\* The values worker f was handed over its endpoint: the frames queued for it
\* and what its last request() returned from the pipe.
Delivered(f) ==
    {inbox[f]["W"][i] : i \in 1..Len(inbox[f]["W"])}
    \cup (IF /\ ret[f]["W"].op = "request" /\ ret[f]["W"].exc = "none"
              /\ ~(ret[f]["W"].block \in {"num", "False"} /\ ret[f]["W"].val = Default)
           THEN {ret[f]["W"].val} ELSE {})

\* The payloads of the frames worker f has written.
SentPayloads(f) ==
    {Payload(log[f].sent[i]) : i \in 1..Len(log[f].sent)}

\* C12: with several invocations in flight, every event of the relay recorded
\* with future f carries the scheduler-side comm of f and a payload that
\* worker f wrote; and every value handed to worker f over its endpoint is
\* the relay's CLOSE or the response of a handler to a REQUEST Msg of f.
C12_InvocationIsolation ==
    \A f \in F :
        /\ \A i \in 1..Len(events[f]) :
              events[f][i].ev \in {"MESSAGE", "REQUEST"} =>
                  /\ events[f][i].comm = <<f, "S">>
                  /\ events[f][i].data \in SentPayloads(f)
        /\ Len(RelayEvents(f)) = Len(log[f].read)
        /\ \A v \in Delivered(f) :
              \/ v = CLOSE
              \/ \E i \in 1..Len(events[f]) :
                    /\ events[f][i].ev = "REQUEST"
                    /\ v \in Responses("REQUEST", events[f][i])

\* C12 witness: two invocations of ident are in flight at once with a handler
\* that echoes; each worker has sent its own x and holds its own x as the
\* reply, and both relays are still running.
C12_Witness ==
    /\ function = ident /\ policy = "echo"
    /\ \E f, g \in F :
          /\ f # g
          /\ relay[f] = "recv" /\ relay[g] = "recv"
          /\ ret[f]["W"].val = PyInt(Arg(f)) /\ ret[g]["W"].val = PyInt(Arg(g))
          /\ futures[f].state = "running" /\ futures[g].state = "running"

\* The frames worker f has written with send / request up to and including
\* the first one that is the CLOSE sentinel (what the peer reads as the
\* close of the channel).
Deliverable(f) ==
    LET sent == log[f].sent
        cl == {i \in 1..Len(sent) : sent[i] = CLOSE}
    IN  IF cl = {} THEN sent
        ELSE SubSeq(sent, 1, CHOOSE i \in cl : \A j \in cl : i <= j)

\* C19: while the loop keeps running, a tracked future that has completed
\* gets its outcome event and DONE emitted, and the frames a worker has
\* written are all read by its relay and emitted, one event each.
C19_EventuallyObserved ==
    \A f \in F :
        /\ (futures[f].state \in Done /\ f \in live) ~> (Len(TaskNames(f)) = 3)
        /\ (Len(RelayEvents(f)) < Len(Deliverable(f)))
              ~> (Len(RelayEvents(f)) >= Len(Deliverable(f)))

\* C19 witness: a worker has returned after two sends and a request, and its
\* three frames and its outcome have all been emitted.
C19_Witness ==
    \E f \in F :
        /\ Len(Deliverable(f)) = 3 /\ Len(RelayEvents(f)) = 3
        /\ TaskNames(f) = <<"SUBMITTED", "RETURNED", "DONE">>

(***************************************************************************)
(* Claims about Scheduler.run(), checked under SpecSched.                  *)
(***************************************************************************)
\* C13: STARTED is emitted once, before any Task or CommTask event, and
\* STOPPED at most once, after the last one (an event is only ever emitted
\* in a state after STARTED and before STOPPED); running() is true in
\* exactly the states after STARTED and before STOPPED; and a run() that has
\* returned has emitted both.
C13_StartedStopped ==
    [][/\ sched'.started <= 1 /\ sched'.stopped <= sched'.started
       /\ sched'.started # sched.started => \A f \in F : events[f] = <<>>
       /\ events' # events =>
             /\ sched.started = 1 /\ sched.stopped = 0
             /\ sched'.started = 1 /\ sched'.stopped = 0
       /\ Running' <=> (sched'.started = 1 /\ sched'.stopped = 0)
       /\ sched'.phase = "stopped" => sched'.stopped = 1]_vars

\* C13 witness: run() has returned after a future went through all of its
\* events while it was draining.
C13_Witness ==
    /\ sched.phase = "stopped" /\ sched.started = 1 /\ sched.stopped = 1
    /\ sched.wait
    /\ \E f \in F : Len(TaskNames(f)) = 3

C15_CleanShutdown ==
    (sched.phase = "stopped" /\ sched.wait) =>
        /\ live = {}
        /\ \A f \in Made : Len(TaskNames(f)) = 3
        /\ worker_comms = {}
        /\ \A f \in F : relay[f] \in {"none", "done"}

\* C16: run() with a timeout that has elapsed and wait=False returns whatever
\* the workers do; after run() has returned no event is emitted and nothing
\* of the scheduler changes, also when an abandoned call completes.
C16_AbandonOnTimeout ==
    /\ [][sched.phase = "stopped" => (events' = events /\ sched' = sched)]_vars
    /\ ((sched.elapsed /\ ~sched.wait) ~> sched.phase = "stopped")

\* C16 witness: run(timeout, wait=False) has returned on its timeout and a
\* call that was running then has returned since; no outcome was emitted
\* for it.
C16_Witness ==
    /\ sched.phase = "stopped" /\ ~sched.wait /\ sched.elapsed /\ ~sched.stop
    /\ \E f \in F :
          /\ futures[f].state = "returned"
          /\ TaskNames(f) = <<"SUBMITTED">>

\* C17: a loop that leaves its running phase with neither stop() called nor
\* the timeout elapsed has end_on_empty set and no future outstanding; and
\* with end_on_empty=True and no timeout, run() returns.
C17_EndOnEmpty ==
    /\ [][(sched.phase = "running" /\ sched'.phase # "running"
             /\ ~sched.stop /\ ~sched.elapsed) =>
                (sched.end_on_empty /\ live = {})]_vars
    /\ ((sched.phase = "running" /\ sched.end_on_empty /\ ~sched.timeout)
            ~> sched.phase = "stopped")

\* C17 witness: run(end_on_empty=True) without timeout and without stop()
\* has returned after two calls were made and processed.
C17_Witness ==
    /\ sched.phase = "stopped" /\ sched.end_on_empty
    /\ ~sched.timeout /\ ~sched.stop
    /\ n_called = 2 /\ \A f \in Made : Len(TaskNames(f)) = 3

\* C18: at most one callback is in progress at any moment, on the loop
\* thread; every emission happens inside the one callback in progress, and
\* no step of a worker emits.
C18_OneCallbackAtATime ==
    [][/\ Cardinality(sched'.active) <= 1
       /\ \A a \in sched'.active : a.thread = "loop"
       /\ events' # events =>
             /\ Cardinality(sched.active) = 1
             /\ wpc' = wpc /\ pend' = pend /\ ret' = ret]_vars

\* C18 witness: two workers are running, one of them blocked in request(),
\* while a callback for the relay of the other is in progress.
C18_Witness ==
    \E f, g \in F :
        /\ f # g
        /\ futures[f].state = "running" /\ futures[g].state = "running"
        /\ pend[f]["W"] = "True"
        /\ \E a \in sched.active : a.kind = "relay" /\ a.f = g

(***************************************************************************)
(* Claims about the EventBus, checked under SpecBus.                       *)
(***************************************************************************)
\* The ids of the subscriptions of subs for event ev, in registration order.
SubscribersOf(subs, ev) ==
    LET mine == SelectSeq(subs, LAMBDA x : x.event = ev)
    IN  [i \in 1..Len(mine) |-> mine[i].id]

\* C20: an emit invokes the subscribers of its event that are live when it
\* begins, each once, in registration order, and no others; an exception
\* of a subscriber is caught, the subscribers after it are invoked all the
\* same, and nothing leaves emit.
C20_EmitInvokesAll ==
    [][bus'.nemit # bus.nemit =>
          /\ bus'.last.invoked = SubscribersOf(bus.subs, bus'.last.event)
          /\ \A i, j \in 1..Len(bus'.last.invoked) :
                i < j => bus'.last.invoked[i] < bus'.last.invoked[j]
          /\ ~bus'.last.escaped
          /\ bus'.last.caught =
                SubscribersOf(SelectSeq(bus.subs, LAMBDA x : x.raises), bus'.last.event)]_vars

\* C20 witness: the last emit invoked three subscribers, the first of which
\* raised.
C20_Witness ==
    /\ Len(bus.last.invoked) = 3
    /\ bus.last.caught # <<>>
    /\ bus.last.caught[1] = bus.last.invoked[1]

\* The ids of the subscriptions on the bus.
OnBus == {bus.subs[i].id : i \in 1..Len(bus.subs)}

\* C21: a subscription registered with repeat = k is invoked at most k
\* times in total; it is on the bus exactly while it has been invoked fewer
\* than k times, so that it is gone right after its k-th invocation and no
\* later emit invokes it; an unlimited subscription is never removed by an
\* emit.
C21_RepeatLimit ==
    \A id \in 1..bus.nsub :
        LET sub == bus.reg[id]
        IN  IF sub.limited
            THEN /\ bus.count[id] <= sub.left
                 /\ id \in OnBus <=> bus.count[id] < sub.left
            ELSE id \in OnBus

\* C21 witness: a subscription with repeat = 2 was invoked twice and is
\* gone, an emit of its event took place after that, and an unlimited
\* subscription was invoked three times.
C21_Witness ==
    \E id, un \in 1..bus.nsub :
        /\ bus.reg[id].limited /\ bus.reg[id].left = 2
        /\ bus.count[id] = 2 /\ id \notin OnBus
        /\ ~bus.reg[un].limited /\ bus.reg[un].event = bus.reg[id].event
        /\ bus.count[un] = 3
        /\ bus.last.event = bus.reg[id].event

(***************************************************************************)
(* Claims about the outcome of a task's callable.                          *)
(***************************************************************************)
\* C22: an exception raised by the callable of a task is never raised into
\* the scheduler's loop nor out of run(); when the loop handles the future
\* it emits EXCEPTION with the exception and then DONE for that future, and
\* nothing else changes: the loop goes on as before and the other futures
\* and their events are untouched, so they are still processed.
C22_ExceptionCaptured ==
    [][/\ sched'.error = None
       /\ \A f \in F :
             (f \in live /\ f \notin live' /\ futures[f].state = "raised") =>
                /\ events'[f] = events[f] \o
                      <<TaskEv("EXCEPTION", futures[f].result), TaskEv("DONE", None)>>
                /\ \A g \in F \ {f} : events'[g] = events[g]
                /\ futures' = futures
                /\ live' = live \ {f}
                /\ sched' = sched]_vars

\* C22 witness: two calls raised; both were handled in a run that went on
\* and stopped in order, and the second was handled after the first.
C22_Witness ==
    /\ sched.phase = "stopped"
    /\ \A f \in 1..2 :
          /\ futures[f].state = "raised"
          /\ f \notin live
          /\ Emitted(f, "EXCEPTION") /\ Emitted(f, "DONE")

\* The number of SUBMITTED events emitted so far.
Submitted == Len(SelectSeq(SeqOf(F), LAMBDA f : Emitted(f, "SUBMITTED")))

\* C23: n_called is the number of submissions that returned a future,
\* which is the number of SUBMITTED events; it is at most call_limit when
\* a limit is set; and it never decreases.
C23_CalledCount ==
    /\ [](/\ n_called = Cardinality({i \in 1..Len(calls) : calls[i] # 0})
          /\ n_called = Submitted
          /\ \A f \in F : Count(f, "SUBMITTED") <= 1
          /\ call_limit # 0 => n_called <= call_limit)
    /\ [][n_called' >= n_called]_vars

\* C23 witness: three submissions were made, of which two returned a future.
C23_Witness ==
    /\ Len(calls) = 3
    /\ n_called = 2
    /\ calls[3] = 0

(***************************************************************************)
(* Claims about Bucket.fetch, checked under SpecBucket.                    *)
(***************************************************************************)
\* The default the documentation of fetch gives for key.
DocumentedDefault(key, default) ==
    IF IsDict(default)
    THEN IF default[2][key] # Absent THEN default[2][key] ELSE None
    ELSE default

\* C24: fetch(keys, default=D) returns an entry for every requested key and
\* for no other; the entry of a key that is not stored is the default for
\* that key: D[k] when D is a dict with k, None when D is a dict without k,
\* and D when D is not a dict; the entry of a stored key is its resource.
C24_FetchDefaults ==
    \A key \in Keys :
        /\ bucket.result[key] # Absent <=> key \in bucket.keys
        /\ key \in bucket.keys =>
              bucket.result[key] =
                 IF bucket.store[key] # Absent THEN bucket.store[key]
                 ELSE DocumentedDefault(key, bucket.default)

(***************************************************************************)
(* Claims about the optimizer and the trial, checked under SpecOpt.        *)
(***************************************************************************)
\* The report of a failed or crashed trial has been told.
ToldError == opt.phase = "told" /\ opt.report.status \in {"FAIL", "CRASHED"}

\* C25: after tell() on a FAIL or CRASHED report, an optimizer made with
\* ignore_errors=False, loss_value_on_error=L and cost_value_on_error=C has
\* set results['loss'] = L and results['cost'] = C; one made with
\* ignore_errors=True has left the results as they were.
C25_TellOnError ==
    ToldError =>
        IF opt.args.ignore_errors
        THEN opt.report.results = opt.passed
        ELSE /\ opt.args.loss_value_on_error # None =>
                   opt.report.results["loss"] = opt.args.loss_value_on_error
             /\ opt.args.cost_value_on_error # None =>
                   opt.report.results["cost"] = opt.args.cost_value_on_error

\* What a round guarantees about the report the target function returns.
ReportOfTarget ==
    /\ opt.phase # "raised"
    /\ opt.phase \in {"reported", "told"} =>
          /\ opt.report.start <= opt.report.end
          /\ opt.report.info = opt.info
          /\ opt.report.status \in {"SUCCESS", "FAIL", "CRASHED"}
          /\ opt.report.status = "FAIL" <=> opt.err # "none"
          /\ opt.report.status = "FAIL" =>
                /\ opt.report.exception = opt.err
                /\ opt.report.traceback # "none"
          /\ opt.report.status = "SUCCESS" => opt.report.exception = "none"
    /\ opt.phase = "reported" => opt.report.results = opt.passed

\* The success reports NEPSOptimizer.tell refuses: no loss, or no cost while
\* the optimizer has a budget.
Refused ==
    /\ opt.report.status = "SUCCESS"
    /\ \/ ~Given(opt.passed, "loss")
       \/ ~Given(opt.passed, "cost") /\ opt.budget # None

SawClose(f) == \E i \in 1..Len(log[f].read) : log[f].read[i] = CLOSE

\* The relay of f has left its loop in order.
Exited(f) == relay[f] \in {"close_comm", "close_worker", "done"}

\* C27: once the relay of an invocation has read the CLOSE sentinel it has
\* emitted CLOSE and left its loop: the sentinel is the last frame it read,
\* CLOSE is the last event of the relay, whatever the worker sent after the
\* sentinel stays unread, and CLOSE is emitted at most once per invocation.
C27_CloseEndsRelay ==
    \A f \in F :
        /\ Count(f, "CLOSE") <= 1
        /\ SawClose(f) =>
              LET read == log[f].read
                  re == RelayEvents(f)
              IN  /\ \A i \in 1..Len(read) : read[i] = CLOSE <=> i = Len(read)
                  /\ Exited(f)
                  /\ Count(f, "CLOSE") = 1
                  /\ re[Len(re)].ev = "CLOSE"
                  /\ Len(re) = Len(read)

\* C27 witness: the relay read CLOSE and finished while a frame the worker
\* sent after the sentinel is still in the pipe.
C27_Witness ==
    \E f \in F :
        /\ relay[f] = "done" /\ SawClose(f)
        /\ Len(log[f].sent) > Len(log[f].read)
        /\ log[f].sent[Len(log[f].sent)] = PyInt(10)

\* C28: once the worker side of the transport is gone the relay leaves its
\* loop; a relay that leaves its loop without having read anything in that
\* step does so on EOF (nothing to read, the worker side gone), emits
\* nothing and goes on to its cleanup; and a CLOSE event is emitted for an
\* invocation if and only if its relay has read the CLOSE sentinel.
C28_CloseIffSentinel ==
    /\ \A f \in F : (relay[f] = "recv" /\ SideClosed(Chan(f), "W")) ~> Exited(f)
    /\ [](\A f \in F : Emitted(f, "CLOSE") <=> SawClose(f))
    /\ [][\A f \in F :
            (relay[f] = "recv" /\ relay'[f] # "recv" /\ log'[f].read = log[f].read) =>
                /\ inbox[f]["S"] = <<>>
                /\ SideClosed(Chan(f), "W")
                /\ events'[f] = events[f]
                /\ relay'[f] = "close_comm"]_vars

\* C28 witness: the worker closed its connection without a sentinel; the
\* relay emitted its message, ended on EOF and emitted no CLOSE.
C28_Witness ==
    \E f \in F :
        /\ relay[f] = "done" /\ ~SawClose(f)
        /\ Emitted(f, "MESSAGE") /\ ~Emitted(f, "CLOSE")
        /\ futures[f].state = "returned"

\* C29: while the relay of a future is running worker_comms holds the
\* worker-side endpoint of that future; on exit the relay closes the
\* scheduler-side endpoint first, in one step that reads no acknowledgement,
\* and only then removes and closes the worker-side endpoint.
C29_WorkerCommHeld ==
    /\ [](\A f \in F :
            /\ relay[f] \in {"recv", "close_comm", "close_worker"} => f \in worker_comms
            /\ relay[f] \in {"close_worker", "done"} => closed[f]["S"]
            /\ relay[f] = "done" => f \notin worker_comms /\ closed[f][WorkerRef])
    /\ [][\A f \in F :
            /\ (f \in worker_comms /\ f \notin worker_comms') =>
                  closed[f]["S"] /\ relay[f] = "close_worker" /\ relay'[f] = "done"
            /\ (~closed[f]["S"] /\ closed'[f]["S"]) =>
                  /\ relay[f] = "close_comm" /\ relay'[f] = "close_worker"
                  /\ inbox'[f]["S"] = inbox[f]["S"]
                  /\ f \in worker_comms']_vars

\* C29 witness: after an EOF the relay has closed the scheduler-side
\* endpoint and still holds the worker-side one, which it has yet to close.
C29_Witness ==
    \E f \in F :
        /\ relay[f] = "close_worker" /\ ~SawClose(f)
        /\ closed[f]["S"]
        /\ f \in worker_comms

\* C30: once the worker of an invocation has finished (returned or
\* raised), the relay of that invocation eventually leaves its loop and
\* completes its cleanup, whether the worker closed its comm or not and
\* whether it ran in a thread or in a process.
C30_RelayTerminates ==
    \A f \in F : (futures[f].state \in {"returned", "raised"}) ~> (relay[f] = "done")

(***************************************************************************)
(* Claims about acknowledgements, responses and bookkeeping, checked       *)
(* under Spec.                                                             *)
(***************************************************************************)
\* C31: the worker's close(wait_for_ack=True) ends its wait only once the
\* relay has read the CLOSE sentinel, emitted CLOSE and closed its own
\* endpoint, which sends the acknowledgement; the frame that ends the wait
\* is that acknowledgement.
C31_CloseWaitsForAck ==
    [][\A f \in F :
          (pend[f]["W"] = "ack" /\ pend'[f]["W"] # "ack") =>
              /\ SawClose(f)
              /\ Emitted(f, "CLOSE")
              /\ closed[f]["S"]
              /\ inbox[f]["W"] # <<>>
              /\ Head(inbox[f]["W"]) = CLOSE]_vars

\* C32: a value other than the default returned by a request() that sent a
\* REQUEST frame is the value a handler passed to respond() for the REQUEST
\* of that very call: not the response to an earlier request, not the CLOSE
\* sentinel of the peer's close().
C32_ReplyIsOwnResponse ==
    \A f \in F :
        LET r == ret[f]["W"]
        IN  (/\ r.op = "request" /\ r.block \in {"True", "num"}
             /\ r.exc = "none" /\ r.val # Default) =>
                /\ r.val # CLOSE
                /\ log[f].owed # <<>>
                /\ log[f].owed[1].n = r.n
                /\ log[f].owed[1].val = r.val

\* C33: once the relay of a future has finished, the future is a key of
\* neither worker_comms nor communication_tasks: both hold only futures
\* whose relay is still running.
C33_NoBookkeepingLeft ==
    \A f \in F :
        /\ f \in worker_comms => relay[f] \in {"recv", "close_comm", "close_worker"}
        /\ f \in communication_tasks => relay[f] \in {"recv", "close_comm", "close_worker"}

\* The invocations of calls from position n on all returned None.
AllRejectedFrom(n) == \A i \in n..Len(calls') : calls'[i] = 0

====
